---- MODULE Spec2Model ----
(***************************************************************************)
(* search_utilities.py: a query layer over the tables Post and se_user.    *)
(* Every function executes one parameterised query on the cursor it is     *)
(* given and returns a generator over that cursor (cau returns a value).   *)
(*                                                                         *)
(* The store (posts, se_user) is read only.  A cursor holds the result set *)
(* of the last query executed on it and a read position.  A caller makes   *)
(* one call and pulls rows from the generator it got back.                 *)
(***************************************************************************)
EXTENDS Integers, Sequences, FiniteSets

\* ------------------------------------------------------------------ bounds
\* creation dates are 1..MaxDate; a TimeBin's start and end are drawn from
\* the same range, so bins with start < end, start = end and start > end all
\* occur, and a post can lie on a bound.
MaxDate == 3

\* SQL NULL / Python None.  Ids, dates and scores are all >= 1.
NULL == 0

PostIds == {1, 2, 3}
UserIds == {1, 2}
Callers == {1, 2}
Cursors == {1, 2}
Dates == 1..MaxDate
\* TimeBin = namedtuple('TimeBin', 'start end'): a 2-tuple; None is <<>>.
TimeBins == Dates \X Dates
NoTimeBin == <<>>
PostTypes == {NULL, 1, 2, 3}
Thresholds == {99, 100, 101}

VARIABLES
    posts,     \* table Post: id -> row
    se_user,   \* table se_user: id -> row (the domain is the users present)
    cursor,    \* cursor -> [rows, src, pos]: result set of the last execute
    call,      \* caller -> the call in progress and its generator
    exclusive  \* caller -> no other caller touched its cursor since its call

vars == <<posts, se_user, cursor, call, exclusive>>

\* ------------------------------------------------------------------ helpers
start(timebin) == timebin[1]
end(timebin) == timebin[2]

Range(s) == {s[i] : i \in 1..Len(s)}

GREATEST(a, b) == IF a >= b THEN a ELSE b

\* (variant: the bounds belong to the bin)
WithinTimeBin_inclusive(date, timebin) ==
    date >= start(timebin) /\ date <= end(timebin)

\* creation_date > %(start)s AND creation_date < %(end)s
WithinTimeBin(date, timebin) == date > start(timebin) /\ date < end(timebin)

\* The sequences a store may return for a result set S: every arrangement of
\* S that is non-decreasing in key (ORDER BY key; ties and unordered queries
\* are store-defined).  key is a function on S.
RECURSIVE Orderings(_, _)
Orderings(S, key) ==
    IF S = {} THEN {<<>>}
    ELSE UNION {{<<x>> \o t : t \in Orderings(S \ {x}, key)} :
                   x \in {y \in S : \A z \in S : key[y] <= key[z]}}

Unordered(S) == [x \in S |-> 0]

RECURSIVE SetSum(_, _)
SetSum(S, f) ==
    IF S = {} THEN 0
    ELSE LET x == CHOOSE y \in S : TRUE IN f[x] + SetSum(S \ {x}, f)

\* ------------------------------------------------------------------ queries
\* A query is the set of its result rows; each row carries the ids of the
\* table rows it was joined from (src), which the cursor never shows.
Result(row, src) == [row |-> row, src |-> src]

\* SELECT id, owner_user_id FROM Post WHERE post_type_id = %(post_type)s
posts_by_type_query(post_type) ==
    {Result(<<p, posts[p].owner_user_id>>, <<p>>) :
        p \in {p \in PostIds : posts[p].post_type_id = post_type}}

\* SELECT id FROM Post WHERE creation_date > %(start)s AND creation_date < %(end)s
posts_within_timebin_query(timebin) ==
    {Result(<<p>>, <<p>>) :
        p \in {p \in PostIds : WithinTimeBin(posts[p].creation_date, timebin)}}

\* (variant: the timebin branch leaves the owner out of its WHERE)
posts_by_user_query_anyone(user_id, timebin) ==
    IF timebin = NoTimeBin
    THEN {Result(<<p>>, <<p>>) :
            p \in {p \in PostIds : posts[p].owner_user_id = user_id}}
    ELSE {Result(<<p>>, <<p>>) :
            p \in {p \in PostIds : WithinTimeBin(posts[p].creation_date, timebin)}}

\* SELECT id FROM Post WHERE owner_user_id = %(user_id)s [AND date in timebin]
posts_by_user_query(user_id, timebin) ==
    IF timebin = NoTimeBin
    THEN {Result(<<p>>, <<p>>) :
            p \in {p \in PostIds : posts[p].owner_user_id = user_id}}
    ELSE {Result(<<p>>, <<p>>) :
            p \in {p \in PostIds :
                     /\ posts[p].owner_user_id = user_id
                     /\ WithinTimeBin(posts[p].creation_date, timebin)}}

\* (variant: reputation >= threshold)
users_above_threshold_query_ge(threshold) ==
    {Result(<<u>>, <<u>>) :
        u \in {u \in DOMAIN se_user : se_user[u].reputation >= threshold}}

\* SELECT id FROM se_user WHERE reputation > %(threshold)s
users_above_threshold_query(threshold) ==
    {Result(<<u>>, <<u>>) :
        u \in {u \in DOMAIN se_user : se_user[u].reputation > threshold}}

\* Post t1 INNER JOIN Post t2 ON t1.parent_id = t2.id WHERE t1.post_type_id = 2
\* AND t2.post_type_id = 1 AND t2.id = %(post_id)s [AND t1 date in timebin]
users_in_post_join(post_id, timebin) ==
    {t \in PostIds \X PostIds :
        /\ posts[t[1]].parent_id /= NULL
        /\ posts[t[1]].parent_id = t[2]
        /\ posts[t[1]].post_type_id = 2
        /\ posts[t[2]].post_type_id = 1
        /\ t[2] = post_id
        /\ timebin /= NoTimeBin =>
               WithinTimeBin(posts[t[1]].creation_date, timebin)}

\* (variant: SELECT without DISTINCT, one row for each joined answer)
users_in_post_query_all(post_id, timebin) ==
    {Result(<<posts[t[1]].owner_user_id>>, t) :
        t \in users_in_post_join(post_id, timebin)}

\* SELECT DISTINCT t1.owner_user_id
users_in_post_query(post_id, timebin) ==
    {Result(<<o>>, <<o>>) :
        o \in {posts[t[1]].owner_user_id : t \in users_in_post_join(post_id, timebin)}}

\* (variant: the timebin is applied to a1 alone)
users_by_tournament_join_a1(timebin) ==
    {t \in PostIds \X PostIds :
        /\ \E q \in PostIds :
              /\ posts[t[1]].parent_id /= NULL /\ q = posts[t[1]].parent_id
              /\ posts[t[2]].parent_id /= NULL /\ q = posts[t[2]].parent_id
        /\ posts[t[1]].owner_user_id \in DOMAIN se_user
        /\ posts[t[2]].owner_user_id \in DOMAIN se_user
        /\ timebin /= NoTimeBin =>
              WithinTimeBin(posts[t[1]].creation_date, timebin)}

\* Post q INNER JOIN Post a1 ON q.id = a1.parent_id INNER JOIN Post a2 ON
\* q.id = a2.parent_id INNER JOIN se_user u1 ON u1.id = a1.owner_user_id
\* INNER JOIN se_user u2 ON u2.id = a2.owner_user_id [WHERE a1 and a2 dates in
\* timebin].  q, u1 and u2 are determined by a1 and a2, so a joined row is
\* identified by <<a1, a2>>.
users_by_tournament_join(timebin) ==
    {t \in PostIds \X PostIds :
        /\ \E q \in PostIds :
              /\ posts[t[1]].parent_id /= NULL /\ q = posts[t[1]].parent_id
              /\ posts[t[2]].parent_id /= NULL /\ q = posts[t[2]].parent_id
        /\ posts[t[1]].owner_user_id \in DOMAIN se_user
        /\ posts[t[2]].owner_user_id \in DOMAIN se_user
        /\ timebin /= NoTimeBin =>
              /\ WithinTimeBin(posts[t[1]].creation_date, timebin)
              /\ WithinTimeBin(posts[t[2]].creation_date, timebin)}

\* SELECT u1.id, a1.score, u2.id, a2.score
users_by_tournament_query(timebin) ==
    {Result(<<posts[t[1]].owner_user_id, posts[t[1]].score,
              posts[t[2]].owner_user_id, posts[t[2]].score>>, t) :
        t \in users_by_tournament_join(timebin)}

\* (variant: ORDER BY a1.creation_date)
users_by_tournament_order_a1(r) == posts[r.src[1]].creation_date

\* ORDER BY GREATEST(a1.creation_date, a2.creation_date)
users_by_tournament_order(r) ==
    GREATEST(posts[r.src[1]].creation_date, posts[r.src[2]].creation_date)

\* SELECT SUM(score) FROM Post WHERE owner_user_id = %(user_id)s AND
\* post_type_id = 2 [AND date in timebin]: one row, NULL when nothing matches.
cau_query(user_id, timebin) ==
    LET S == {p \in PostIds :
                /\ posts[p].owner_user_id = user_id
                /\ posts[p].post_type_id = 2
                /\ timebin /= NoTimeBin =>
                       WithinTimeBin(posts[p].creation_date, timebin)}
    IN {Result(<<IF S = {} THEN NULL
                 ELSE SetSum(S, [p \in PostIds |-> posts[p].score])>>, <<>>)}

\* ------------------------------------------------------------------ state
\* st: idle, iterating (a generator was returned and is not exhausted),
\* finished (the generator is exhausted), returned (a value was returned, in
\* value), raised (an exception, in error).  result is what the caller's own
\* query returned when it was executed; from is the src of each yielded item.
Idle == [op |-> "", arg |-> NULL, timebin |-> NoTimeBin, st |-> "idle",
         cur |-> NULL, shape |-> "", result |-> <<>>, yielded |-> <<>>,
         from |-> <<>>, value |-> <<>>, error |-> ""]

NoResult == [rows |-> <<>>, pos |-> 0]

\* The rows post p may hold.  Post 1 opens a thread (it has no parent) and is
\* user 1's; a later post is a question of its own or an answer to an earlier
\* post, by either user.  Any post is created on any day.  The score of post p
\* is 2p - 1, so that a score tells the post it comes from.
PostRows(p) ==
    {[owner_user_id |-> o, post_type_id |-> tp[1], parent_id |-> tp[2],
      creation_date |-> d, score |-> 2 * p - 1] :
        o \in IF p = 1 THEN {1} ELSE UserIds,
        tp \in IF p = 1 THEN {<<1, NULL>>, <<2, NULL>>}
               ELSE {<<1, NULL>>} \cup {<<2, q>> : q \in {q \in PostIds : q < p}},
        d \in Dates}

Stores == {f \in [PostIds -> UNION {PostRows(p) : p \in PostIds}] :
              \A p \in PostIds : f[p] \in PostRows(p)}

UserTables == {[u \in S |-> [reputation |-> 99 + u]] : S \in {{1}, {1, 2}}}

Init ==
    /\ posts \in Stores
    /\ se_user \in UserTables
    /\ cursor = [c \in Cursors |-> NoResult]
    /\ call = [k \in Callers |-> Idle]
    /\ exclusive = [k \in Callers |-> TRUE]

\* ------------------------------------------------------------------ steps
\* cursor.execute(query, params) on cursor c followed by the return of a
\* generator expression over that cursor, for caller k.
Execute(k, c, op, arg, timebin, shape, result) ==
    /\ cursor' = [cursor EXCEPT ![c] = [rows |-> result, pos |-> 0]]
    /\ call' = [call EXCEPT ![k] =
                  [op |-> op, arg |-> arg, timebin |-> timebin,
                   st |-> "iterating", cur |-> c, shape |-> shape,
                   result |-> result, yielded |-> <<>>, from |-> <<>>,
                   value |-> <<>>, error |-> ""]]
    /\ exclusive' = [j \in Callers |->
                       IF j = k THEN TRUE
                       ELSE IF call[j].cur = c THEN FALSE ELSE exclusive[j]]
    /\ UNCHANGED <<posts, se_user>>

posts_by_type(k, c, post_type) ==
    LET pt == IF post_type = NULL THEN 1 ELSE post_type
        q == posts_by_type_query(pt)
    IN /\ call[k].st = "idle"
       /\ \E result \in Orderings(q, Unordered(q)) :
             Execute(k, c, "posts_by_type", post_type, NoTimeBin, "pair", result)

posts_within_timebin(k, c, timebin) ==
    LET q == posts_within_timebin_query(timebin)
    IN /\ call[k].st = "idle"
       /\ \E result \in Orderings(q, Unordered(q)) :
             Execute(k, c, "posts_within_timebin", NULL, timebin, "first", result)

posts_by_user(k, c, user_id, timebin) ==
    LET q == posts_by_user_query(user_id, timebin)
    IN /\ call[k].st = "idle"
       /\ \E result \in Orderings(q, Unordered(q)) :
             Execute(k, c, "posts_by_user", user_id, timebin, "first", result)

users_above_threshold(k, c, threshold) ==
    LET q == users_above_threshold_query(threshold)
    IN /\ call[k].st = "idle"
       /\ \E result \in Orderings(q, Unordered(q)) :
             Execute(k, c, "users_above_threshold", threshold, NoTimeBin, "first", result)

users_in_post(k, c, post_id, timebin) ==
    LET q == users_in_post_query(post_id, timebin)
    IN /\ call[k].st = "idle"
       /\ \E result \in Orderings(q, Unordered(q)) :
             Execute(k, c, "users_in_post", post_id, timebin, "first", result)

users_by_tournament(k, c, timebin) ==
    LET q == users_by_tournament_query(timebin)
    IN /\ call[k].st = "idle"
       /\ \E result \in Orderings(q, [r \in q |-> users_by_tournament_order(r)]) :
             Execute(k, c, "users_by_tournament", NULL, timebin, "pairs", result)

\* Without a timebin the query is executed and then `cur.fetchone()` names a
\* variable that does not exist.  With a timebin the parameter dictionary
\* names `post_id`, which does not exist either, before anything is executed.
cau(k, c, user_id, timebin) ==
    /\ call[k].st = "idle"
    /\ IF timebin = NoTimeBin
       THEN \E result \in Orderings(cau_query(user_id, timebin),
                                    Unordered(cau_query(user_id, timebin))) :
               /\ cursor' = [cursor EXCEPT ![c] = [rows |-> result, pos |-> 0]]
               /\ exclusive' = [j \in Callers |->
                                  IF j /= k /\ call[j].cur = c
                                  THEN FALSE ELSE exclusive[j]]
       ELSE UNCHANGED <<cursor, exclusive>>
    /\ call' = [call EXCEPT ![k] =
                  [Idle EXCEPT !.op = "cau", !.arg = user_id, !.timebin = timebin,
                               !.st = "raised", !.cur = c, !.error = "NameError"]]
    /\ UNCHANGED <<posts, se_user>>

\* What each generator expression makes of a result row.
Columns(shape) == IF shape = "first" THEN 1 ELSE IF shape = "pair" THEN 2 ELSE 4

Yield(shape, row) ==
    IF shape = "first" THEN row[1]
    ELSE IF shape = "pair" THEN <<row[1], row[2]>>
    ELSE <<<<row[1], row[2]>>, <<row[3], row[4]>>>>

\* (variant: the generator reads a cursor of the module, not the one passed)
GenNext_module_cursor(k) ==
    LET c == 1
        more == cursor[c].pos < Len(cursor[c].rows)
        r == cursor[c].rows[cursor[c].pos + 1]
    IN /\ call[k].st = "iterating"
       /\ IF more
          THEN /\ cursor' = [cursor EXCEPT ![c].pos = @ + 1]
               /\ call' = [call EXCEPT ![k] =
                             IF Len(r.row) < Columns(call[k].shape)
                             THEN [@ EXCEPT !.st = "raised", !.error = "IndexError"]
                             ELSE [@ EXCEPT !.yielded = Append(@, Yield(call[k].shape, r.row)),
                                            !.from = Append(@, r.src)]]
               /\ exclusive' = [j \in Callers |->
                                  IF j /= k /\ call[j].cur = c
                                  THEN FALSE ELSE exclusive[j]]
          ELSE /\ call' = [call EXCEPT ![k].st = "finished"]
               /\ UNCHANGED <<cursor, exclusive>>
       /\ UNCHANGED <<posts, se_user>>

\* next() on caller k's generator: the next row of its cursor, or the end.
GenNext(k) ==
    LET c == call[k].cur
        more == cursor[c].pos < Len(cursor[c].rows)
        r == cursor[c].rows[cursor[c].pos + 1]
    IN /\ call[k].st = "iterating"
       /\ IF more
          THEN /\ cursor' = [cursor EXCEPT ![c].pos = @ + 1]
               /\ call' = [call EXCEPT ![k] =
                             IF Len(r.row) < Columns(call[k].shape)
                             THEN [@ EXCEPT !.st = "raised", !.error = "IndexError"]
                             ELSE [@ EXCEPT !.yielded = Append(@, Yield(call[k].shape, r.row)),
                                            !.from = Append(@, r.src)]]
               /\ exclusive' = [j \in Callers |->
                                  IF j /= k /\ call[j].cur = c
                                  THEN FALSE ELSE exclusive[j]]
          ELSE /\ call' = [call EXCEPT ![k].st = "finished"]
               /\ UNCHANGED <<cursor, exclusive>>
       /\ UNCHANGED <<posts, se_user>>

\* A step of caller k, which uses cursor c and draws its time bins from bins.
Step(k, c, bins) ==
    \/ \E post_type \in PostTypes : posts_by_type(k, c, post_type)
    \/ \E timebin \in bins : posts_within_timebin(k, c, timebin)
    \/ \E user_id \in UserIds, timebin \in {NoTimeBin} \cup bins :
          posts_by_user(k, c, user_id, timebin)
    \/ \E threshold \in Thresholds : users_above_threshold(k, c, threshold)
    \/ \E post_id \in PostIds, timebin \in {NoTimeBin} \cup bins :
          users_in_post(k, c, post_id, timebin)
    \/ \E timebin \in {NoTimeBin} \cup bins : users_by_tournament(k, c, timebin)
    \/ \E user_id \in UserIds, timebin \in {NoTimeBin} \cup bins :
          cau(k, c, user_id, timebin)
    \/ GenNext(k)

\* One caller with one cursor.
Next == Step(1, 1, TimeBins)

Spec == Init /\ [][Next]_vars

\* Two callers, each passing either cursor, in every interleaving of their
\* calls and pulls, over one thread: question 1, answered on day 2 by post 2
\* and on day 3 by post 3.
ConcTimeBins == {<<1, MaxDate>>}

InitConc ==
    /\ Init
    /\ posts[1].post_type_id = 1 /\ posts[1].creation_date = 1
    /\ \A p \in PostIds \ {1} :
          /\ posts[p].post_type_id = 2 /\ posts[p].parent_id = 1
          /\ posts[p].creation_date = p
    /\ DOMAIN se_user = UserIds

NextConc == \E k \in Callers, c \in Cursors : Step(k, c, ConcTimeBins)

SpecConc == InitConc /\ [][NextConc]_vars

\* ------------------------------------------------------------------ claims
NoDuplicates(s) == \A i, j \in 1..Len(s) : s[i] = s[j] => i = j

\* Caller k called op, and the cursor it passed has been its own ever since.
Called(k, op) == call[k].op = op /\ exclusive[k]

Finished(k, op) == Called(k, op) /\ call[k].st = "finished"

\* The date of the later of the two posts a yielded pair was joined from.
LaterDate(t) ==
    IF posts[t[1]].creation_date >= posts[t[2]].creation_date
    THEN posts[t[1]].creation_date ELSE posts[t[2]].creation_date

StrictlyInside(p, timebin) ==
    /\ posts[p].creation_date > timebin[1]
    /\ posts[p].creation_date < timebin[2]

\* One question with two answers: A1 by user 1, score 3, day 2 and A2 by
\* user 2, score 5, day 3; users 1 and 2 exist.
TournamentScenario ==
    /\ posts[1].post_type_id = 1
    /\ posts[2] = [owner_user_id |-> 1, post_type_id |-> 2, parent_id |-> 1,
                   creation_date |-> 2, score |-> 3]
    /\ posts[3] = [owner_user_id |-> 2, post_type_id |-> 2, parent_id |-> 1,
                   creation_date |-> 3, score |-> 5]
    /\ DOMAIN se_user = {1, 2}

\* C1: in the scenario of one question with answers A1 (user 1, score 3, day
\* 2) and A2 (user 2, score 5, day 3), users_by_tournament without a timebin
\* yields exactly [((1,3),(2,5))]: no pair of an answer with itself and no
\* mirrored pair.
C1_TournamentScenarioYieldsOnePair ==
    \A k \in Callers :
        (/\ TournamentScenario
         /\ Finished(k, "users_by_tournament")
         /\ call[k].timebin = NoTimeBin)
        => call[k].yielded = <<  <<<<1, 3>>, <<2, 5>>>>  >>

\* C2: cau without a timebin, for a user who owns no answer, completes
\* normally and returns None: not zero, not a wrapped row, not an error.
C2_CauWithoutAnswersReturnsNone ==
    \A k \in Callers :
        (/\ call[k].op = "cau"
         /\ call[k].timebin = NoTimeBin
         /\ ~ \E p \in PostIds : /\ posts[p].owner_user_id = call[k].arg
                                 /\ posts[p].post_type_id = 2)
        => /\ call[k].st = "returned"
           /\ call[k].value = <<NULL>>

\* C3: cau with a timebin filters on its own user_id argument and returns the
\* sum of the scores of that user's answers created strictly inside the
\* timebin.
C3_CauWithTimebinReturnsSum ==
    \A k \in Callers :
        (/\ call[k].op = "cau"
         /\ call[k].timebin /= NoTimeBin)
        => /\ call[k].st = "returned"
           /\ LET S == {p \in PostIds :
                          /\ posts[p].owner_user_id = call[k].arg
                          /\ posts[p].post_type_id = 2
                          /\ StrictlyInside(p, call[k].timebin)}
              IN call[k].value =
                   <<IF S = {} THEN NULL
                     ELSE SetSum(S, [p \in PostIds |-> posts[p].score])>>

\* C4: with or without a timebin, the pairs users_by_tournament yields are
\* in non-decreasing order of the later of the pair's two creation dates.
C4_TournamentOrderedByLaterDate ==
    \A k \in Callers :
        Called(k, "users_by_tournament")
        => \A i \in 1..(Len(call[k].from) - 1) :
              LaterDate(call[k].from[i]) <= LaterDate(call[k].from[i + 1])

\* a tournament that yielded a pair with an earlier later-post date before
\* a pair whose first post is the earlier one of its two
C4_Witness ==
    \E k \in Callers :
        /\ Finished(k, "users_by_tournament")
        /\ \E i \in 1..(Len(call[k].from) - 1) :
              /\ LaterDate(call[k].from[i]) < LaterDate(call[k].from[i + 1])
              /\ posts[call[k].from[i + 1][1]].creation_date
                   < posts[call[k].from[i + 1][2]].creation_date

\* The owners of the answers to question post_id (inside timebin, if given).
Answerers(post_id, timebin) ==
    {posts[a].owner_user_id :
        a \in {a \in PostIds :
                 /\ posts[a].post_type_id = 2
                 /\ posts[a].parent_id = post_id
                 /\ posts[post_id].post_type_id = 1
                 /\ timebin /= NoTimeBin => StrictlyInside(a, timebin)}}

\* C5: users_in_post yields no user id twice, and what it yields in all is
\* exactly the owners of the answers (post_type_id 2) whose parent is the
\* question (post_type_id 1) post_id, inside the timebin when one is given.
C5_UsersInPostDistinctAnswerers ==
    \A k \in Callers :
        Called(k, "users_in_post")
        => /\ NoDuplicates(call[k].yielded)
           /\ call[k].st /= "raised"
           /\ call[k].st = "finished"
                => Range(call[k].yielded) = Answerers(call[k].arg, call[k].timebin)

\* a user who answered the question twice was yielded once
C5_Witness ==
    \E k \in Callers :
        /\ Finished(k, "users_in_post")
        /\ \E a, b \in PostIds :
              /\ a /= b
              /\ posts[a].post_type_id = 2 /\ posts[b].post_type_id = 2
              /\ posts[a].parent_id = call[k].arg /\ posts[b].parent_id = call[k].arg
              /\ posts[a].owner_user_id = posts[b].owner_user_id
              /\ call[k].yielded = <<posts[a].owner_user_id>>

\* C6: whatever posts_by_user yields with a timebin is among the rows of
\* posts_by_user for the same user without a timebin, on the same store.
C6_PostsByUserSuperset ==
    \A k \in Callers :
        (Called(k, "posts_by_user") /\ call[k].timebin /= NoTimeBin)
        => Range(call[k].yielded)
             \subseteq {r.row[1] : r \in posts_by_user_query(call[k].arg, NoTimeBin)}

\* a call with a timebin that yielded some of the user's posts and not all
C6_Witness ==
    \E k \in Callers :
        /\ Finished(k, "posts_by_user")
        /\ call[k].timebin /= NoTimeBin
        /\ call[k].yielded /= <<>>
        /\ \E r \in posts_by_user_query(call[k].arg, NoTimeBin) :
              r.row[1] \notin Range(call[k].yielded)

\* C7: posts_within_timebin raises nothing; with start >= end it yields
\* nothing; with start < end it yields exactly the ids of the posts with
\* start < creation_date < end, never a post created on start or on end.
C7_PostsWithinTimebinExclusive ==
    \A k \in Callers :
        Called(k, "posts_within_timebin")
        => /\ call[k].st /= "raised"
           /\ NoDuplicates(call[k].yielded)
           /\ \A p \in Range(call[k].yielded) :
                 /\ posts[p].creation_date /= call[k].timebin[1]
                 /\ posts[p].creation_date /= call[k].timebin[2]
           /\ call[k].st = "finished"
                => IF call[k].timebin[1] >= call[k].timebin[2]
                   THEN call[k].yielded = <<>>
                   ELSE Range(call[k].yielded) =
                          {p \in PostIds : StrictlyInside(p, call[k].timebin)}

\* a timebin with start = end, a post created on that very day, and an
\* empty result
C7_Witness ==
    \E k \in Callers :
        /\ Finished(k, "posts_within_timebin")
        /\ call[k].timebin[1] = call[k].timebin[2]
        /\ \E p \in PostIds : posts[p].creation_date = call[k].timebin[1]
        /\ call[k].yielded = <<>>

\* C8: with a timebin, every pair users_by_tournament yields is joined from
\* two posts both created strictly inside the timebin, and is a pair that the
\* call without a timebin has among its rows.
C8_TournamentInsideTimebin ==
    \A k \in Callers :
        (Called(k, "users_by_tournament") /\ call[k].timebin /= NoTimeBin)
        => \A i \in 1..Len(call[k].yielded) :
              /\ StrictlyInside(call[k].from[i][1], call[k].timebin)
              /\ StrictlyInside(call[k].from[i][2], call[k].timebin)
              /\ \E r \in users_by_tournament_query(NoTimeBin) :
                    /\ r.src = call[k].from[i]
                    /\ call[k].yielded[i] = <<<<r.row[1], r.row[2]>>, <<r.row[3], r.row[4]>>>>

\* a call with a timebin that yielded a pair and left out a pair with one
\* post inside the timebin and the other on its bound
C8_Witness ==
    \E k \in Callers :
        /\ Finished(k, "users_by_tournament")
        /\ call[k].timebin /= NoTimeBin
        /\ call[k].yielded /= <<>>
        /\ \E r \in users_by_tournament_query(NoTimeBin) :
              /\ r.src \notin Range(call[k].from)
              /\ StrictlyInside(r.src[1], call[k].timebin)
              /\ posts[r.src[2]].creation_date = call[k].timebin[2]

\* C9: users_above_threshold yields exactly the ids of the users whose
\* reputation is strictly greater than the threshold, each once, and never a
\* user whose reputation equals it.
C9_UsersAboveThresholdStrict ==
    \A k \in Callers :
        Called(k, "users_above_threshold")
        => /\ call[k].st /= "raised"
           /\ NoDuplicates(call[k].yielded)
           /\ \A u \in Range(call[k].yielded) : se_user[u].reputation /= call[k].arg
           /\ call[k].st = "finished"
                => Range(call[k].yielded) =
                     {u \in DOMAIN se_user : se_user[u].reputation > call[k].arg}

\* a threshold that is one user's reputation: that user is left out while
\* another is yielded
C9_Witness ==
    \E k \in Callers :
        /\ Finished(k, "users_above_threshold")
        /\ \E u \in DOMAIN se_user : se_user[u].reputation = call[k].arg
        /\ call[k].yielded /= <<>>

\* C10: the query runs at the call and a row is read at each pull only.  When
\* the callers pass cursors of their own, then however their calls and pulls
\* interleave, each generator has yielded the first rows of its own query's
\* result, in order and once each, as many as it was pulled, and all of them
\* by the time it ends.
C10_OwnCursorOwnRows ==
    \A k \in Callers :
        (call[k].st \in {"iterating", "finished"} /\ exclusive[k])
        => LET n == Len(call[k].yielded)
               c == call[k].cur
           IN /\ n <= Len(call[k].result)
              /\ call[k].yielded =
                   [i \in 1..n |-> Yield(call[k].shape, call[k].result[i].row)]
              /\ cursor[c].rows = call[k].result
              /\ cursor[c].pos = n
              /\ call[k].st = "finished" => n = Len(call[k].result)

\* both callers are part way through different results on different cursors
C10_Witness ==
    /\ call[1].cur /= call[2].cur
    /\ call[1].op /= call[2].op
    /\ \A k \in Callers :
          /\ call[k].st = "iterating" /\ exclusive[k]
          /\ call[k].yielded /= <<>>
          /\ Len(call[k].yielded) < Len(call[k].result)

====
